---- MODULE Spec2Model ----
(***************************************************************************)
(* AbaqusGuard: the job lifecycle detection engine (JobDetector), the      *)
(* polling loop that consumes it (AbaqusMonitor), the notification        *)
(* deduper (NotificationDeduper) and the WeCom sender that uses it         *)
(* (WecomWebhookClient).                                                   *)
(*                                                                         *)
(* Time is counted in poll intervals: one Sleep of the polling loop        *)
(* advances the clock by one unit.  A scan cycle is atomic (the program is *)
(* single threaded) and reads the clock once.                              *)
(***************************************************************************)
EXTENDS Integers, Sequences, FiniteSets, TLC

\* ------------------------------------------------------------------ bounds
\* The clock stops at MaxTime; at most MaxJobs JobInfo objects are created.
MaxTime == 5
MaxJobs == 2
\* The values the settings take in the model, in poll intervals
\* (LCK_GRACE_PERIOD, JOB_END_CONFIRM_PERIOD, NOTIFY_DEDUPE_TTL).
GracePeriod == 2
ConfirmPeriod == 2
DedupeTTL == 2
\* PROGRESS_NOTIFY_INTERVAL and CSV_UPDATE_INTERVAL, in poll intervals.
ProgressInterval == 2
CsvInterval == 2

Names == {"a", "b"}
\* The directories on the host: the configured roots d1 and d2, and d1/sub,
\* an immediate subdirectory of d1.
Dirs == {"d1", "d1/sub", "d2"}
ProbeOutcomes == {"present", "absent", "error"}
Keys == {"", "k1", "k2"}
StaValues == {"unknown", "running", "success", "failed"}

\* Python's None, and a file that does not exist.
None == 0 - 1
NoFile == 0 - 1

VARIABLES
    cfg,             \* Settings; WATCH_DIRS may be edited while the monitor runs
    now,             \* wall clock
    pc,              \* position of AbaqusMonitor.run: "scan" or "sleep"
    lck,             \* the file system: lck[d][n] = ctime of <n>.lck in d, or NoFile
    disk,            \* the file system: the directories that exist
    heap,            \* the JobInfo objects ever created, by identity
    running_jobs,    \* JobDetector.running_jobs: dir -> name -> object
    finishing_jobs,  \* JobDetector.finishing_jobs
    ignored_lck,     \* JobDetector.ignored_lck: dir -> set of names
    completed_jobs,  \* JobDetector.completed_jobs (list of objects)
    tracked_jobs,    \* AbaqusMonitor.tracked_jobs: job key -> object
    last_progress_notify,  \* AbaqusMonitor.last_progress_notify: job key -> time
    last_csv_update, \* AbaqusMonitor.last_csv_update: job key -> time
    ret,             \* history: what the last scan cycle did
    hist,            \* history: per JobInfo object
    ocalls,          \* history: runs of _handle_orphan_job per marker lifetime
    seen,            \* NotificationDeduper._seen: key -> timestamp
    dd,              \* history: the last should_send call and the last true per key
    deduper,         \* notify_dedupe._deduper: None, or the instance's ttl_seconds
    wc               \* history: the sends of WecomWebhookClient

vars == <<cfg, now, pc, lck, disk, heap, running_jobs, finishing_jobs, ignored_lck,
          completed_jobs, tracked_jobs, last_progress_notify, last_csv_update,
          ret, hist, ocalls, seen, dd, deduper, wc>>

monitorVars == <<last_progress_notify, last_csv_update>>

senderVars == <<deduper, wc>>

detectorVars == <<cfg, pc, lck, disk, heap, running_jobs, finishing_jobs, ignored_lck,
                  completed_jobs, tracked_jobs, ret, hist, ocalls>>

\* ----------------------------------------------------------- dictionaries
EmptyDict == [x \in {} |-> x]
Put(f, k, v) == [x \in (DOMAIN f) \cup {k} |-> IF x = k THEN v ELSE f[x]]
\* Op applied to the value of x, x evaluated once: a local variable.
Bind(x, Op(_)) == CHOOSE r \in {Op(v) : v \in {x}} : TRUE

Pop(f, k) == [x \in (DOMAIN f) \ {k} |-> f[x]]

\* ============================================================ the deduper
\* NotificationDeduper._cleanup: with ttl <= 0 everything is cleared, else
\* the entries older than the TTL are dropped.
Cleanup(s, t, ttl) ==
    IF ttl <= 0 THEN EmptyDict
    ELSE [k \in {x \in DOMAIN s : ~(s[x] < t - ttl)} |-> s[k]]

\* should_send with the comparison (now - last) <= ttl in place of < ttl.
ShouldSendLe(s, key, t, ttl) ==
    IF key = "" THEN [result |-> TRUE, seen |-> s]
    ELSE LET c == Cleanup(s, t, ttl)
         IN  IF key \in DOMAIN c /\ (t - c[key]) <= ttl
             THEN [result |-> FALSE, seen |-> c]
             ELSE [result |-> TRUE, seen |-> Put(c, key, t)]

\* should_send that keeps a recorded key for ever: no cleanup, no TTL test.
ShouldSendNoExpiry(s, key, t, ttl) ==
    IF key = "" THEN [result |-> TRUE, seen |-> s]
    ELSE IF key \in DOMAIN s
         THEN [result |-> FALSE, seen |-> s]
         ELSE [result |-> TRUE, seen |-> Put(s, key, t)]

\* should_send without the test for an empty key.
ShouldSendRecordsEmpty(s, key, t, ttl) ==
    LET c == Cleanup(s, t, ttl)
    IN  IF key \in DOMAIN c /\ (t - c[key]) < ttl
        THEN [result |-> FALSE, seen |-> c]
        ELSE [result |-> TRUE, seen |-> Put(c, key, t)]

\* should_send that stamps the key again when it suppresses a call.
ShouldSendRefreshes(s, key, t, ttl) ==
    IF key = "" THEN [result |-> TRUE, seen |-> s]
    ELSE LET c == Cleanup(s, t, ttl)
         IN  IF key \in DOMAIN c /\ (t - c[key]) < ttl
             THEN [result |-> FALSE, seen |-> Put(c, key, t)]
             ELSE [result |-> TRUE, seen |-> Put(c, key, t)]

\* NotificationDeduper.should_send: the result and the new _seen.
ShouldSend(s, key, t, ttl) ==
    IF key = "" THEN [result |-> TRUE, seen |-> s]
    ELSE LET c == Cleanup(s, t, ttl)
         IN  IF key \in DOMAIN c /\ (t - c[key]) < ttl
             THEN [result |-> FALSE, seen |-> c]
             ELSE [result |-> TRUE, seen |-> Put(c, key, t)]

NoCall == [key |-> "", time |-> None, result |-> TRUE, prev |-> None,
           prevFalse |-> None]

\* One call of should_send(key) at the current time.  dd.last remembers the
\* call, dd.lastTrue[key] the time of the key's last true result before it,
\* dd.lastFalse[key] the time of its last false result.
CallShouldSend(key) ==
    LET r == ShouldSend(seen, key, now, deduper)
    IN  /\ seen' = r.seen
        /\ dd' = [last |-> [key |-> key, time |-> now, result |-> r.result,
                            prev |-> dd.lastTrue[key],
                            prevFalse |-> dd.lastFalse[key]],
                  lastTrue |-> IF r.result /\ key # ""
                               THEN [dd.lastTrue EXCEPT ![key] = now]
                               ELSE dd.lastTrue,
                  lastFalse |-> IF ~r.result
                                THEN [dd.lastFalse EXCEPT ![key] = now]
                                ELSE dd.lastFalse]
        /\ UNCHANGED <<now, detectorVars, monitorVars, senderVars>>

\* Time passes between two calls.
DedupeTick ==
    /\ now < MaxTime
    /\ now' = now + 1
    /\ UNCHANGED <<seen, dd, detectorVars, monitorVars, senderVars>>

\* ======================================================= the WeCom sender
\* The webhook URLs a route can name; the default one is WECOM_WEBHOOK_URL.
WecomUrls == {"u1", "u2"}
DefaultWecomUrl == "u1"
DeliveryOutcomes == {"ok", "http_error", "errcode", "exception"}

\* What the sender is asked to send: a start or a progress notification of
\* one job, with the webhook_url argument ("" for None).
SendInputs ==
    {[kind |-> "start", step |-> 0, increment |-> 0, url |-> u] :
        u \in {""} \cup WecomUrls}
    \cup {[kind |-> "progress", step |-> p[1], increment |-> p[2], url |-> u] :
            p \in {<<1, 1>>, <<1, 2>>, <<2, 1>>}, u \in {""} \cup WecomUrls}

\* The pairs of notifications the sender is exercised with: a progress
\* notification sent to u1, and one that differs from it in the kind, the
\* step, the increment or the URL.
BaseInput == [kind |-> "progress", step |-> 1, increment |-> 1, url |-> "u1"]
SendPairs == {{BaseInput, i} : i \in SendInputs \ {BaseInput}}

NoSend ==
    [input |-> [kind |-> "", step |-> 0, increment |-> 0, url |-> ""],
     time |-> None, key |-> "", ttl |-> None, passed |-> TRUE, posted |-> FALSE,
     ok |-> FALSE, prevPass |-> None, prevFailed |-> FALSE]

\* History of the sender: the inputs in use, the last call of send, per input
\* the time of its last call that passed the deduper and whether the
\* delivery of that call failed, and the TTL of the first call.
NoSends(pair) ==
    [pair |-> pair, last |-> NoSend,
     passAt |-> [i \in pair |-> None],
     failed |-> [i \in pair |-> FALSE],
     firstTTL |-> None]

DedupeInitState ==
    /\ seen = EmptyDict
    /\ dd = [last |-> NoCall, lastTrue |-> [k \in Keys |-> None],
             lastFalse |-> [k \in Keys |-> None]]

\* ============================================================ the detector
\* The enumeration with a member for the finishing state.
JobStatusWithFinishing == {"RUNNING", "SUCCESS", "FAILED", "ABORTED", "FINISHING"}

\* models/job.py: the members of the JobStatus enumeration.
JobStatus == {"RUNNING", "SUCCESS", "FAILED", "ABORTED"}

\* JobInfo.is_completed: the terminal states.
Terminal == {"SUCCESS", "FAILED", "ABORTED"}

\* feishu/webhook_client.py: the parameters of
\* WebhookClient.send_orphan_job_warning (after self).
FeishuOrphanParams == {"job", "job_info", "duration_str"}

\* JobInfo(...) as _handle_new_job builds it.  end_detected_time is the
\* attribute _scan_directory adds to the object; None while it is not set.
JobInfo(n, d, start) ==
    [name |-> n, work_dir |-> d, start_time |-> start, end_time |-> None,
     status |-> "RUNNING", is_orphan |-> FALSE, end_detected_time |-> None]

\* JobInfo.is_completed
is_completed(job) == job.status \in {"SUCCESS", "FAILED", "ABORTED"}

\* JobInfo.mark_completed at time t
mark_completed(job, status, t) == [job EXCEPT !.status = status, !.end_time = t]

\* AbaqusMonitor._get_job_key
JobKey(job) == <<job.name, job.work_dir>>

\* The history kept per JobInfo object: calls of _on_job_start and
\* _on_job_complete with it, whether and when a scan found its marker
\* missing, what the status file held then, and whether it held a terminal
\* phrase in that or a later scan; the calls of csv_logger.update_job and of
\* send_job_complete that _on_job_complete made for it; the times at which
\* _check_progress_notify sent a progress notification for it.
NewHist == [startEv |-> 0, completeEv |-> 0, endSeen |-> FALSE, endAt |-> None,
            staEnd |-> "unknown", termRead |-> FALSE,
            csvUpdates |-> 0, completeSends |-> 0, progressAt |-> {}]

\* The orders in which a loop may visit a set of names.
Orders == {<<"a", "b">>, <<"b", "a">>}

RECURSIVE Restrict(_, _)
\* The sequence ord without the names outside s.
Restrict(ord, s) ==
    IF ord = <<>> THEN <<>>
    ELSE IF Head(ord) \in s THEN <<Head(ord)>> \o Restrict(Tail(ord), s)
    ELSE Restrict(Tail(ord), s)

RECURSIVE SeqOf(_)
SeqOf(s) ==
    IF s = {} THEN <<>>
    ELSE LET x == CHOOSE y \in s : TRUE IN <<x>> \o SeqOf(s \ {x})

\* JobDetector._get_lck_age
LckAge(d, n) == IF lck[d][n] # NoFile THEN now - lck[d][n] ELSE 0

\* Path.parent of an immediate subdirectory; "" for a root path.
Parent(d) == IF d = "d1/sub" THEN "d1" ELSE ""

\* directory.exists()
DirsOnDisk == disk

\* _refresh_watch_dirs: the existing configured roots and their immediate
\* subdirectories.
MonitoredDirs ==
    LET roots == {d \in cfg.WATCH_DIRS : d \in DirsOnDisk}
    IN  roots \cup {d \in DirsOnDisk : Parent(d) \in roots}

\* _refresh_watch_dirs that keeps the state of the directories it removes.
RefreshWatchDirsKeepsRemoved(S) ==
    LET monitored_dirs == MonitoredDirs
        old_dirs == DOMAIN S.run
        added == monitored_dirs \ old_dirs
        removed == old_dirs \ monitored_dirs
    IN  [S EXCEPT
            !.run = [d \in (DOMAIN S.run) \cup added |->
                        IF d \in added THEN EmptyDict ELSE S.run[d]],
            !.fin = [d \in (DOMAIN S.fin) \cup added |->
                        IF d \in added THEN EmptyDict ELSE S.fin[d]],
            !.ign = [d \in (DOMAIN S.ign) \cup added |->
                        IF d \in added THEN {} ELSE S.ign[d]],
            !.added = added,
            !.removed = removed]

\* _refresh_watch_dirs that monitors the roots alone.
RefreshWatchDirsRootsOnly(S) ==
    LET monitored_dirs == {d \in cfg.WATCH_DIRS : d \in DirsOnDisk}
        old_dirs == DOMAIN S.run
        added == monitored_dirs \ old_dirs
        removed == old_dirs \ monitored_dirs
    IN  [S EXCEPT
            !.run = [d \in ((DOMAIN S.run) \cup added) \ removed |->
                        IF d \in added THEN EmptyDict ELSE S.run[d]],
            !.fin = [d \in ((DOMAIN S.fin) \cup added) \ removed |->
                        IF d \in added THEN EmptyDict ELSE S.fin[d]],
            !.ign = [d \in ((DOMAIN S.ign) \cup added) \ removed |->
                        IF d \in added THEN {} ELSE S.ign[d]],
            !.added = added,
            !.removed = removed]

\* JobDetector._refresh_watch_dirs on the scan state S: the three
\* dictionaries get an empty entry for every added directory and lose the
\* entry of every removed one; the delta is kept in added and removed.
RefreshWatchDirs(S) ==
    LET monitored_dirs == MonitoredDirs
        old_dirs == DOMAIN S.run
        added == monitored_dirs \ old_dirs
        removed == old_dirs \ monitored_dirs
    IN  [S EXCEPT
            !.run = [d \in ((DOMAIN S.run) \cup added) \ removed |->
                        IF d \in added THEN EmptyDict ELSE S.run[d]],
            !.fin = [d \in ((DOMAIN S.fin) \cup added) \ removed |->
                        IF d \in added THEN EmptyDict ELSE S.fin[d]],
            !.ign = [d \in ((DOMAIN S.ign) \cup added) \ removed |->
                        IF d \in added THEN {} ELSE S.ign[d]],
            !.added = added,
            !.removed = removed]

\* The orphan test taken on the marker's age alone.
ProcessAbsentAgeOnly(abaqus_running) == TRUE

\* The condition that opens both orphan paths (_handle_new_job and
\* _scan_directory step 10): detection is enabled and the probe found no
\* process.
ProcessAbsent(abaqus_running) == cfg.ENABLE_PROCESS_DETECTION /\ ~abaqus_running

\* JobDetector._handle_new_job
HandleNewJob(S, d, n, abaqus_running) ==
    IF /\ ProcessAbsent(abaqus_running)
       /\ LckAge(d, n) >= cfg.LCK_GRACE_PERIOD
    THEN [S EXCEPT !.ign[d] = @ \cup {n}]
    ELSE LET id == Len(S.heap) + 1
         IN  [S EXCEPT !.heap = Append(@, JobInfo(n, d, lck[d][n])),
                       !.hist = Append(@, NewHist),
                       !.run[d] = Put(@, n, id),
                       !.jobs = Append(@, [id |-> id, kind |-> "new"])]

RECURSIVE HandleNewJobs(_, _, _, _)
\* _scan_directory step 6: the loop over new_lck
HandleNewJobs(S, d, todo, abaqus_running) ==
    IF todo = <<>> THEN S
    ELSE Bind(HandleNewJob(S, d, Head(todo), abaqus_running),
              LAMBDA T : HandleNewJobs(T, d, Tail(todo), abaqus_running))

\* JobDetector._handle_job_end for object id, the status file reading sta
HandleJobEnd(S, id, sta) ==
    LET status == IF sta = "success" THEN "SUCCESS"
                  ELSE IF sta = "failed" THEN "FAILED"
                  ELSE "ABORTED"
    IN  [S EXCEPT !.heap[id] = mark_completed(@, status, now),
                  !.comp = Append(@, id)]

\* _scan_directory step 7, one pass of the loop over ended_jobs.
\* With a confirmation period, the assignment job.status =
\* JobStatus.FINISHING is evaluated: JobStatus has no such member, the
\* attribute lookup raises AttributeError and the scan is left with the job
\* popped.
HandleEnded(S, d, n, sta) ==
    LET inRun == n \in DOMAIN S.run[d]
        inFin == n \in DOMAIN S.fin[d]
        id == IF inRun THEN S.run[d][n] ELSE S.fin[d][n]
        S1 == [S EXCEPT !.run[d] = IF inRun THEN Pop(@, n) ELSE @,
                        !.fin[d] = IF ~inRun /\ inFin THEN Pop(@, n) ELSE @,
                        !.hist[id] = [@ EXCEPT !.endSeen = TRUE,
                                               !.endAt = IF @ = None THEN now ELSE @,
                                               !.staEnd = sta]]
    IN  IF ~inRun /\ ~inFin THEN S
        ELSE IF cfg.JOB_END_CONFIRM_PERIOD <= 0
        THEN [HandleJobEnd(S1, id, sta) EXCEPT
                 !.jobs = Append(@, [id |-> id, kind |-> "ended"])]
        ELSE IF "FINISHING" \notin JobStatus
        THEN [S1 EXCEPT !.exc = TRUE, !.err = "AttributeError"]
        ELSE [S1 EXCEPT !.heap[id] = [@ EXCEPT !.status = "FINISHING",
                                               !.end_detected_time = now],
                        !.fin[d] = Put(@, n, id),
                        !.jobs = Append(@, [id |-> id, kind |-> "finishing"])]

RECURSIVE HandleEndedJobs(_, _, _, _)
HandleEndedJobs(S, d, todo, staIn) ==
    IF todo = <<>> \/ S.exc THEN S
    ELSE Bind(HandleEnded(S, d, Head(todo), staIn[Head(todo)]),
              LAMBDA T : HandleEndedJobs(T, d, Tail(todo), staIn))

\* _finalize_finishing_jobs, one pass of the loop over finishing.items();
\* the keys collected in keys_to_remove are popped here.
FinalizeOne(S, d, n, sta) ==
    LET id == S.fin[d][n]
        job == S.heap[id]
        edt == IF job.end_detected_time = None THEN now ELSE job.end_detected_time
        elapsed == now - edt
        S1 == [S EXCEPT !.heap[id].end_detected_time = edt]
    IN  IF cfg.JOB_END_CONFIRM_PERIOD <= 0
        THEN [S EXCEPT !.fin[d] = Pop(@, n)]
        ELSE IF sta \in {"success", "failed"}
        THEN [HandleJobEnd(S1, id, sta) EXCEPT
                 !.jobs = Append(@, [id |-> id, kind |-> "ended"]),
                 !.fin[d] = Pop(@, n)]
        ELSE IF elapsed >= cfg.JOB_END_CONFIRM_PERIOD
        THEN [S1 EXCEPT !.heap[id] = mark_completed(@, "ABORTED", now),
                        !.comp = Append(@, id),
                        !.jobs = Append(@, [id |-> id, kind |-> "ended"]),
                        !.fin[d] = Pop(@, n)]
        ELSE S1

RECURSIVE FinalizeLoop(_, _, _, _)
FinalizeLoop(S, d, todo, staIn) ==
    IF todo = <<>> THEN S
    ELSE Bind(FinalizeOne(S, d, Head(todo), staIn[Head(todo)]),
              LAMBDA T : FinalizeLoop(T, d, Tail(todo), staIn))

\* JobDetector._finalize_finishing_jobs
FinalizeFinishingJobs(S, d, ord, staIn) ==
    IF S.exc \/ DOMAIN S.fin[d] = {} THEN S
    ELSE FinalizeLoop(S, d, Restrict(ord, DOMAIN S.fin[d]), staIn)

\* JobDetector._handle_orphan_job.  The object is marked first; then the
\* warning is sent to every selected Feishu URL with the keyword argument
\* webhook_url, which WebhookClient.send_orphan_job_warning does not take:
\* with a Feishu URL selected the call raises TypeError before the object
\* is appended to completed_jobs.  The WeCom client's method takes
\* webhook_url, and its send catches its own request errors.
HandleOrphanJob(S, id, d) ==
    LET n == S.heap[id].name
        S1 == [S EXCEPT !.heap[id] = mark_completed([@ EXCEPT !.is_orphan = TRUE],
                                                    "ABORTED", now),
                        !.oc[d][n] = @ + 1]
    IN  IF cfg.FEISHU_ORPHAN_URL /\ "webhook_url" \notin FeishuOrphanParams
        THEN [S1 EXCEPT !.exc = TRUE, !.err = "TypeError"]
        ELSE [S1 EXCEPT !.comp = Append(@, id)]

\* _scan_directory step 10, one pass of the loop over active_jobs_now.
\* running_jobs[directory].pop(job_name) raises KeyError for a name that is
\* only in finishing_jobs.
OrphanCheckOne(S, d, n) ==
    IF LckAge(d, n) < cfg.LCK_GRACE_PERIOD
    THEN [S EXCEPT !.after = @ \cup {n}]
    ELSE IF n \notin DOMAIN S.run[d]
    THEN [S EXCEPT !.exc = TRUE, !.err = "KeyError"]
    ELSE LET id == S.run[d][n]
             Popped == [S EXCEPT !.run[d] = Pop(@, n)]
         IN  Bind(HandleOrphanJob(Popped, id, d),
                  LAMBDA S1 :
                     IF S1.exc THEN S1
                     ELSE [S1 EXCEPT !.ign[d] = @ \cup {n},
                                     !.jobs = Append(@, [id |-> id, kind |-> "orphaned"])])

RECURSIVE OrphanCheckLoop(_, _, _)
OrphanCheckLoop(S, d, todo) ==
    IF todo = <<>> \/ S.exc THEN S
    ELSE Bind(OrphanCheckOne(S, d, Head(todo)),
              LAMBDA T : OrphanCheckLoop(T, d, Tail(todo)))

\* _scan_directory step 11, one pass: running_jobs[directory][job_name]
\* raises KeyError for a name that is only in finishing_jobs.
\* _update_job_progress changes only the progress fields, which the model
\* does not hold.
UpdateProgressOne(S, d, n) ==
    IF n \notin DOMAIN S.run[d]
    THEN [S EXCEPT !.exc = TRUE, !.err = "KeyError"]
    ELSE [S EXCEPT !.jobs = Append(@, [id |-> S.run[d][n], kind |-> "continuing"])]

RECURSIVE UpdateProgressLoop(_, _, _)
UpdateProgressLoop(S, d, todo) ==
    IF todo = <<>> \/ S.exc THEN S
    ELSE Bind(UpdateProgressOne(S, d, Head(todo)),
              LAMBDA T : UpdateProgressLoop(T, d, Tail(todo)))

\* History only, after the scan of d: the status file of a job whose marker
\* was found missing and that is not resolved holds a terminal phrase.
NoteInputs(S, d, staIn) ==
    [S EXCEPT !.hist = [i \in DOMAIN S.hist |->
        LET job == S.heap[i]
            h == S.hist[i]
        IN  IF job.work_dir # d THEN h
            ELSE [h EXCEPT
                    !.termRead = @ \/ (/\ h.endSeen
                                       /\ staIn[job.name] \in {"success", "failed"})]]]

\* _scan_directory step 3 that prunes nothing.
RemovedIgnoredNone(ignored, current_lck) == {}

\* _scan_directory step 3: removed_ignored
RemovedIgnored(ignored, current_lck) == ignored \ current_lck

\* _scan_directory step 5: effective_lck with the ignored names left in.
EffectiveLckAll(current_lck, ignored) == current_lck

\* _scan_directory step 5: effective_lck
EffectiveLck(current_lck, ignored) == current_lck \ ignored

\* ProcessDetector.is_abaqus_running when it returns: True on the first
\* matching process, False at the end of the process list (processes that
\* raised NoSuchProcess or AccessDenied are skipped).  The outcome "error"
\* is an exception of another class (proc.info['name'] is None, say), which
\* is_abaqus_running does not catch.
IsAbaqusRunning(probe) == probe = "present"

\* _scan_directory with the orphan check ahead of the ended names.
StepOrderOrphanFirst == <<"new", "orphan", "ended", "finalize", "progress">>

\* The order of the loops of _scan_directory: step 6 (new names), step 7
\* (ended names), step 8 (_finalize_finishing_jobs), step 10 (orphan check
\* of the still active names), step 11 (progress of the rest).
StepOrder == <<"new", "ended", "finalize", "orphan", "progress">>

\* JobDetector._scan_directory.  probe is what happens in
\* is_abaqus_running, staIn what the status files hold, ord the order in
\* which the loops visit names.  An exception of is_abaqus_running is not
\* caught: it leaves _scan_directory at step 4.
ScanDirectory(S0, d, probe, staIn, ord) ==
    LET current_lck == {n \in Names : lck[d][n] # NoFile}
        previous_jobs == (DOMAIN S0.run[d]) \cup (DOMAIN S0.fin[d])
        removed_ignored == RemovedIgnored(S0.ign[d], current_lck)
        called == cfg.ENABLE_PROCESS_DETECTION
        abaqus_running == IF called THEN IsAbaqusRunning(probe) ELSE TRUE
        ignored == S0.ign[d] \ removed_ignored
        effective_lck == EffectiveLck(current_lck, ignored)
        new_lck == effective_lck \ previous_jobs
        ended_jobs == previous_jobs \ current_lck
        active_jobs_now == previous_jobs \cap effective_lck
        Step3(S) == [S EXCEPT !.ign[d] = @ \ removed_ignored,
                              !.oc[d] = [n \in Names |->
                                            IF n \in current_lck THEN @[n] ELSE 0],
                              !.scanned = @ \cup {d},
                              !.after = {}]
        Step4(S) == IF called /\ probe = "error"
                    THEN [S EXCEPT !.probes = @ + 1,
                                   !.exc = TRUE, !.err = "ProbeError"]
                    ELSE [S EXCEPT !.probes = IF called THEN @ + 1 ELSE @,
                                   !.abq[d] = abaqus_running,
                                   !.newSet[d] = new_lck,
                                   !.endedSet[d] = ended_jobs,
                                   !.ignAtNew[d] = ignored]
        Step6(S) == IF S.exc THEN S
                    ELSE HandleNewJobs(S, d, Restrict(ord, new_lck), abaqus_running)
        Step7(S) == HandleEndedJobs(S, d, Restrict(ord, ended_jobs), staIn)
        Step8(S) == FinalizeFinishingJobs(S, d, ord, staIn)
        Step10(S) == IF S.exc THEN S
                     ELSE IF /\ ProcessAbsent(abaqus_running)
                             /\ active_jobs_now # {}
                     THEN OrphanCheckLoop(S, d, Restrict(ord, active_jobs_now))
                     ELSE [S EXCEPT !.after = active_jobs_now]
        Step11(S) == UpdateProgressLoop(S, d, Restrict(ord, S.after))
        Note(S) == NoteInputs(S, d, staIn)
        Step(k, S) == CASE StepOrder[k] = "new" -> Step6(S)
                        [] StepOrder[k] = "ended" -> Step7(S)
                        [] StepOrder[k] = "finalize" -> Step8(S)
                        [] StepOrder[k] = "orphan" -> Step10(S)
                        [] StepOrder[k] = "progress" -> Step11(S)
    IN  IF d \notin DirsOnDisk THEN S0
        ELSE Bind(Bind(Bind(Bind(Bind(Bind(Bind(Step3(S0), Step4),
                                           LAMBDA T : Step(1, T)),
                                      LAMBDA T : Step(2, T)),
                                 LAMBDA T : Step(3, T)),
                            LAMBDA T : Step(4, T)),
                       LAMBDA T : Step(5, T)), Note)

RECURSIVE ScanLoop(_, _, _, _, _)
ScanLoop(S, todo, probe, staIn, ord) ==
    IF todo = <<>> \/ S.exc THEN S
    ELSE Bind(ScanDirectory(S, Head(todo), probe[Head(todo)], staIn[Head(todo)], ord),
              LAMBDA T : ScanLoop(T, Tail(todo), probe, staIn, ord))

\* JobDetector.scan_directories: nothing catches an exception of
\* _scan_directory, so the first one ends the loop over the directories.
ScanDirectories(S, probe, staIn, ord) ==
    Bind(RefreshWatchDirs(S),
         LAMBDA S1 : ScanLoop(S1, SeqOf(DOMAIN S1.run), probe, staIn, ord))

\* The channels main.py sends on: those whose default URL is set.  The
\* model has no WEBHOOK_ROUTES, so select_webhook_urls returns the default
\* URL of the channel when it is set.
Channels ==
    (IF cfg.FEISHU_ORPHAN_URL THEN {"feishu"} ELSE {}) \cup
    (IF cfg.WECOM_WEBHOOK_URL THEN {"wecom"} ELSE {})

\* _on_job_complete without the early return for orphan jobs.
OnJobCompleteNotifiesAll(C, id) ==
    [C EXCEPT !.hist[id].completeEv = @ + 1,
              !.hist[id].csvUpdates = @ + 1,
              !.hist[id].completeSends = @ + Cardinality(Channels)]

\* AbaqusMonitor._on_job_complete (ENABLE_CSV_LOG on): the record is
\* updated; for an orphan job nothing is sent; else send_job_complete is
\* called on every channel.
OnJobComplete(C, id) ==
    [C EXCEPT !.hist[id].completeEv = @ + 1,
              !.hist[id].csvUpdates = @ + 1,
              !.hist[id].completeSends =
                  IF C.heap[id].is_orphan THEN @ ELSE @ + Cardinality(Channels)]

\* AbaqusMonitor._check_progress_notify: the first call for a key sends at
\* once, a later one when PROGRESS_NOTIFY_INTERVAL has passed since the
\* time recorded for the key.  A datetime is never false, so "not
\* last_notify" tests for a missing entry.  Sent means send_job_progress
\* is called on the configured channels.
CheckProgressNotify(C, id) ==
    IF cfg.PROGRESS_NOTIFY_INTERVAL <= 0 THEN C
    ELSE LET job_key == JobKey(C.heap[id])
             last_notify == IF job_key \in DOMAIN C.lpn THEN C.lpn[job_key] ELSE None
             sent == [C EXCEPT !.lpn = Put(@, job_key, now),
                               !.hist[id].progressAt =
                                   IF Channels # {} THEN @ \cup {now} ELSE @]
         IN  IF last_notify = None THEN sent
             ELSE IF now - last_notify >= cfg.PROGRESS_NOTIFY_INTERVAL THEN sent
             ELSE C

\* AbaqusMonitor._check_csv_update (ENABLE_CSV_LOG on): the first call for a
\* key only records the time, a later one updates the record when
\* CSV_UPDATE_INTERVAL has passed.
CheckCsvUpdate(C, id) ==
    IF cfg.CSV_UPDATE_INTERVAL <= 0 THEN C
    ELSE LET job_key == JobKey(C.heap[id])
             last_update == IF job_key \in DOMAIN C.lcu THEN C.lcu[job_key] ELSE None
         IN  IF last_update = None THEN [C EXCEPT !.lcu = Put(@, job_key, now)]
             ELSE IF now - last_update >= cfg.CSV_UPDATE_INTERVAL
                  THEN [C EXCEPT !.hist[id].csvUpdates = @ + 1,
                                 !.lcu = Put(@, job_key, now)]
                  ELSE C

\* _scan_once that leaves the timestamps of a completed job in place.
ProcessJobKeepsTimestamps(C, id) ==
    LET job == C.heap[id]
        job_key == JobKey(job)
    IN  IF job_key \notin DOMAIN C.tracked
        THEN [C EXCEPT !.hist[id].startEv = @ + 1,
                       !.tracked = Put(@, job_key, id)]
        ELSE LET tid == C.tracked[job_key]
                 C1 == [C EXCEPT !.heap[tid].status = job.status]
             IN  IF is_completed(C1.heap[id])
                 THEN [OnJobComplete(C1, id) EXCEPT !.tracked = Pop(@, job_key)]
                 ELSE CheckCsvUpdate(CheckProgressNotify(C1, id), id)

\* AbaqusMonitor._scan_once, one pass of the loop over all_jobs.  C holds
\* heap, hist, tracked and the two timestamp maps.  _update_tracked_job
\* copies the status of the returned object to the tracked one (the same
\* object, unless the key was left in tracked_jobs by an earlier object).
ProcessJob(C, id) ==
    LET job == C.heap[id]
        job_key == JobKey(job)
    IN  IF job_key \notin DOMAIN C.tracked
        THEN [C EXCEPT !.hist[id].startEv = @ + 1,
                       !.tracked = Put(@, job_key, id)]
        ELSE LET tid == C.tracked[job_key]
                 C1 == [C EXCEPT !.heap[tid].status = job.status]
             IN  IF is_completed(C1.heap[id])
                 THEN [OnJobComplete(C1, id) EXCEPT !.tracked = Pop(@, job_key),
                                                    !.lpn = Pop(@, job_key),
                                                    !.lcu = Pop(@, job_key)]
                 ELSE CheckCsvUpdate(CheckProgressNotify(C1, id), id)

RECURSIVE ProcessJobs(_, _)
ProcessJobs(C, todo) ==
    IF todo = <<>> THEN C
    ELSE Bind(ProcessJob(C, Head(todo).id),
              LAMBDA T : ProcessJobs(T, Tail(todo)))

\* AbaqusMonitor._scan_once: scan_directories, then the loop over what it
\* returned; an exception anywhere is caught and logged, and what the
\* detector had changed before it stays changed.
ScanOnceResult(probe, staIn, ord) ==
    LET S0 == [run |-> running_jobs, fin |-> finishing_jobs, ign |-> ignored_lck,
               comp |-> completed_jobs, heap |-> heap, hist |-> hist, oc |-> ocalls,
               jobs |-> <<>>, exc |-> FALSE, err |-> "",
               abq |-> [d \in Dirs |-> TRUE], after |-> {},
               probes |-> 0, scanned |-> {}, added |-> {}, removed |-> {},
               newSet |-> [d \in Dirs |-> {}], endedSet |-> [d \in Dirs |-> {}],
               ignAtNew |-> [d \in Dirs |-> {}]]
        Caller(S) ==
            LET C0 == [heap |-> S.heap, hist |-> S.hist, tracked |-> tracked_jobs,
                       lpn |-> last_progress_notify, lcu |-> last_csv_update]
            IN  [S |-> S, C |-> IF S.exc THEN C0 ELSE ProcessJobs(C0, S.jobs)]
    IN  Bind(ScanDirectories(S0, probe, staIn, ord), Caller)

\* What a scan can read.  The probe is called only with process detection
\* enabled.  A status file is read, as far as the model goes, only for a job
\* whose marker is missing and that is not resolved yet; the other files
\* are taken as empty.  The order of the loops shows only when one of them
\* is left by an exception.
ProbeInputs ==
    {f \in [Dirs -> ProbeOutcomes] :
        \A d \in Dirs :
            (~cfg.ENABLE_PROCESS_DETECTION \/ d \notin MonitoredDirs) => f[d] = "present"}

StaRead(d) ==
    {n \in Names :
        \/ /\ d \in DOMAIN running_jobs
           /\ n \in (DOMAIN running_jobs[d]) \cup (DOMAIN finishing_jobs[d])
           /\ lck[d][n] = NoFile
        \/ \E i \in DOMAIN heap : /\ heap[i].name = n
                                  /\ heap[i].work_dir = d
                                  /\ hist[i].endSeen
                                  /\ heap[i].status \notin Terminal}

StaChoices(d) ==
    {g \in [Names -> StaValues] : \A n \in Names : n \notin StaRead(d) => g[n] = "unknown"}

StaInputs ==
    {[d \in Dirs |-> IF d = "d1" THEN g1 ELSE IF d = "d2" THEN g2 ELSE g3] :
        g1 \in StaChoices("d1"), g2 \in StaChoices("d2"), g3 \in StaChoices("d1/sub")}

OrderInputs ==
    IF cfg.JOB_END_CONFIRM_PERIOD > 0 \/ cfg.FEISHU_ORPHAN_URL
    THEN Orders ELSE {<<"a", "b">>}

\* AbaqusMonitor.run with a loop that ends when a scan cycle failed.
AfterScanStopsOnError(exc) == IF exc THEN "stopped" ELSE "sleep"

\* AbaqusMonitor.run: _scan_once has caught whatever the cycle raised, and
\* the loop goes on to time.sleep.
AfterScan(exc) == "sleep"

ScanOnce ==
    /\ pc = "scan"
    /\ \E probe \in ProbeInputs, staIn \in StaInputs, ord \in OrderInputs :
        \E R \in {ScanOnceResult(probe, staIn, ord)} :
            /\ Len(R.S.heap) <= MaxJobs
            /\ running_jobs' = R.S.run
            /\ finishing_jobs' = R.S.fin
            /\ ignored_lck' = R.S.ign
            /\ completed_jobs' = R.S.comp
            /\ ocalls' = R.S.oc
            /\ heap' = R.C.heap
            /\ hist' = R.C.hist
            /\ tracked_jobs' = R.C.tracked
            /\ last_progress_notify' = R.C.lpn
            /\ last_csv_update' = R.C.lcu
            /\ ret' = [time |-> now, exc |-> R.S.exc, jobs |-> R.S.jobs,
                       abq |-> R.S.abq, err |-> R.S.err, probes |-> R.S.probes,
                       scanned |-> R.S.scanned, monitored |-> MonitoredDirs,
                       added |-> R.S.added, removed |-> R.S.removed,
                       newSet |-> R.S.newSet, endedSet |-> R.S.endedSet,
                       ignAtNew |-> R.S.ignAtNew]
            /\ pc' = AfterScan(R.S.exc)
    /\ UNCHANGED <<cfg, now, lck, disk, seen, dd, senderVars>>

\* History: no scan has run since the loop last slept.
NoScan ==
    [time |-> None, exc |-> FALSE, jobs |-> <<>>, abq |-> [d \in Dirs |-> TRUE],
     err |-> "", probes |-> 0, scanned |-> {}, monitored |-> {},
     added |-> {}, removed |-> {},
     newSet |-> [d \in Dirs |-> {}], endedSet |-> [d \in Dirs |-> {}],
     ignAtNew |-> [d \in Dirs |-> {}]]

\* AbaqusMonitor.run: time.sleep(POLL_INTERVAL) between two scans.
Sleep ==
    /\ pc = "sleep"
    /\ now < MaxTime
    /\ now' = now + 1
    /\ pc' = "scan"
    /\ ret' = NoScan
    /\ UNCHANGED <<cfg, lck, disk, heap, running_jobs, finishing_jobs, ignored_lck,
                   completed_jobs, tracked_jobs, hist, ocalls, seen, dd,
                   monitorVars, senderVars>>

\* The compute engine creates the marker file of job n in d.  A scan is
\* atomic, so the file system changes while the loop sleeps; changes after
\* the last scan of the bounded run are not explored.
CreateLck(d, n) ==
    /\ pc = "sleep"
    /\ now < MaxTime
    /\ d \in disk
    /\ lck[d][n] = NoFile
    /\ lck' = [lck EXCEPT ![d][n] = now]
    /\ UNCHANGED <<cfg, now, pc, disk, heap, running_jobs, finishing_jobs, ignored_lck,
                   completed_jobs, tracked_jobs, ret, hist, ocalls, seen, dd,
                   monitorVars, senderVars>>

\* The marker file of job n in d is deleted.
DeleteLck(d, n) ==
    /\ pc = "sleep"
    /\ now < MaxTime
    /\ lck[d][n] # NoFile
    /\ lck' = [lck EXCEPT ![d][n] = NoFile]
    /\ UNCHANGED <<cfg, now, pc, disk, heap, running_jobs, finishing_jobs, ignored_lck,
                   completed_jobs, tracked_jobs, ret, hist, ocalls, seen, dd,
                   monitorVars, senderVars>>

\* A directory is created on the host; a subdirectory needs its parent.
Mkdir(d) ==
    /\ pc = "sleep"
    /\ now < MaxTime
    /\ d \notin disk
    /\ Parent(d) = "" \/ Parent(d) \in disk
    /\ disk' = disk \cup {d}
    /\ UNCHANGED <<cfg, now, pc, lck, heap, running_jobs, finishing_jobs, ignored_lck,
                   completed_jobs, tracked_jobs, ret, hist, ocalls, seen, dd,
                   monitorVars, senderVars>>

\* A directory is removed from the host with what it holds.
Rmdir(d) ==
    /\ pc = "sleep"
    /\ now < MaxTime
    /\ d \in disk
    /\ disk' = {e \in disk : e # d /\ Parent(e) # d}
    /\ lck' = [e \in Dirs |-> IF e \in disk' THEN lck[e] ELSE [n \in Names |-> NoFile]]
    /\ UNCHANGED <<cfg, now, pc, heap, running_jobs, finishing_jobs, ignored_lck,
                   completed_jobs, tracked_jobs, ret, hist, ocalls, seen, dd,
                   monitorVars, senderVars>>

\* The configuration file is edited: the root d1 is taken out of WATCH_DIRS
\* or put back.  _refresh_watch_dirs reloads the settings in every cycle.
SetWatchDirs(W) ==
    /\ pc = "sleep"
    /\ now < MaxTime
    /\ W # cfg.WATCH_DIRS
    /\ cfg' = [cfg EXCEPT !.WATCH_DIRS = W]
    /\ UNCHANGED <<now, pc, lck, disk, heap, running_jobs, finishing_jobs, ignored_lck,
                   completed_jobs, tracked_jobs, ret, hist, ocalls, seen, dd,
                   monitorVars, senderVars>>

\* AbaqusMonitor.run: KeyboardInterrupt ends the loop.
Interrupt ==
    /\ pc \in {"scan", "sleep"}
    /\ pc' = "stopped"
    /\ UNCHANGED <<cfg, now, lck, disk, heap, running_jobs, finishing_jobs, ignored_lck,
                   completed_jobs, tracked_jobs, ret, hist, ocalls, seen, dd,
                   monitorVars, senderVars>>

\* The settings the model runs under.  FEISHU_ORPHAN_URL: whether
\* select_webhook_urls(job, "orphan", "feishu") returns a URL.
Configs ==
    [ENABLE_PROCESS_DETECTION : BOOLEAN,
     LCK_GRACE_PERIOD : {GracePeriod},
     JOB_END_CONFIRM_PERIOD : {0, ConfirmPeriod},
     FEISHU_ORPHAN_URL : BOOLEAN,
     WECOM_WEBHOOK_URL : {FALSE},
     PROGRESS_NOTIFY_INTERVAL : {0},
     CSV_UPDATE_INTERVAL : {0},
     NOTIFY_DEDUPE_TTL : {DedupeTTL},
     WATCH_DIRS : {{"d1"}}]

\* JobDetector.__init__ and AbaqusMonitor.__init__.  The monitor starts at
\* time GracePeriod; a marker may be there already, created at time 0.
Init ==
    /\ cfg \in Configs
    /\ now = GracePeriod
    /\ pc = "scan"
    /\ disk = {"d1"}
    /\ lck \in {f \in [Dirs -> [Names -> {NoFile, 0}]] :
                   \A d \in Dirs \ disk : \A n \in Names : f[d][n] = NoFile}
    /\ heap = <<>>
    /\ hist = <<>>
    /\ running_jobs = EmptyDict
    /\ finishing_jobs = EmptyDict
    /\ ignored_lck = EmptyDict
    /\ completed_jobs = <<>>
    /\ tracked_jobs = EmptyDict
    /\ last_progress_notify = EmptyDict
    /\ last_csv_update = EmptyDict
    /\ ret = NoScan
    /\ ocalls = [d \in Dirs |-> [n \in Names |-> 0]]
    /\ DedupeInitState
    /\ deduper = None
    /\ wc = NoSends({})

Next ==
    \/ ScanOnce
    \/ Sleep
    \/ \E d \in Dirs, n \in Names : CreateLck(d, n)
    \/ \E d \in Dirs, n \in Names : DeleteLck(d, n)

Spec == Init /\ [][Next]_vars

\* The monitor with progress notifications and periodic CSV updates, on one
\* root, with a WeCom URL and no Feishu URL.
NotifyInit ==
    /\ cfg \in [ENABLE_PROCESS_DETECTION : BOOLEAN,
                LCK_GRACE_PERIOD : {GracePeriod},
                JOB_END_CONFIRM_PERIOD : {0, ConfirmPeriod},
                FEISHU_ORPHAN_URL : {FALSE},
                WECOM_WEBHOOK_URL : {TRUE},
                PROGRESS_NOTIFY_INTERVAL : {0, ProgressInterval},
                CSV_UPDATE_INTERVAL : {CsvInterval},
                NOTIFY_DEDUPE_TTL : {DedupeTTL},
                WATCH_DIRS : {{"d1"}}]
    /\ now = GracePeriod
    /\ pc = "scan"
    /\ disk = {"d1"}
    /\ lck \in {f \in [Dirs -> [Names -> {NoFile, 0}]] :
                   \A d \in Dirs \ disk : \A n \in Names : f[d][n] = NoFile}
    /\ heap = <<>>
    /\ hist = <<>>
    /\ running_jobs = EmptyDict
    /\ finishing_jobs = EmptyDict
    /\ ignored_lck = EmptyDict
    /\ completed_jobs = <<>>
    /\ tracked_jobs = EmptyDict
    /\ last_progress_notify = EmptyDict
    /\ last_csv_update = EmptyDict
    /\ ret = NoScan
    /\ ocalls = [d \in Dirs |-> [n \in Names |-> 0]]
    /\ DedupeInitState
    /\ deduper = None
    /\ wc = NoSends({})

NotifySpec == NotifyInit /\ [][Next]_vars

\* The monitor over two configured roots, of which d2 does not exist at the
\* start; directories come and go, one job name is in use, and the loop may
\* be interrupted.  A marker may be in d1 already, and the root d1 may be
\* taken out of the configuration and put back.  The run is long enough for
\* a marker to outlive the grace period.
DirInit ==
    /\ cfg \in [ENABLE_PROCESS_DETECTION : {TRUE},
                LCK_GRACE_PERIOD : {GracePeriod},
                JOB_END_CONFIRM_PERIOD : {0},
                FEISHU_ORPHAN_URL : {FALSE},
                WECOM_WEBHOOK_URL : {TRUE},
                PROGRESS_NOTIFY_INTERVAL : {0},
                CSV_UPDATE_INTERVAL : {0},
                NOTIFY_DEDUPE_TTL : {DedupeTTL},
                WATCH_DIRS : {{"d1", "d2"}}]
    /\ now = MaxTime - GracePeriod
    /\ pc = "scan"
    /\ disk = {"d1"}
    /\ lck \in {f \in [Dirs -> [Names -> {NoFile, 0}]] :
                   \A d \in Dirs, n \in Names :
                       (d # "d1" \/ n # "a") => f[d][n] = NoFile}
    /\ heap = <<>>
    /\ hist = <<>>
    /\ running_jobs = EmptyDict
    /\ finishing_jobs = EmptyDict
    /\ ignored_lck = EmptyDict
    /\ completed_jobs = <<>>
    /\ tracked_jobs = EmptyDict
    /\ last_progress_notify = EmptyDict
    /\ last_csv_update = EmptyDict
    /\ ret = NoScan
    /\ ocalls = [d \in Dirs |-> [n \in Names |-> 0]]
    /\ DedupeInitState
    /\ deduper = None
    /\ wc = NoSends({})

DirNext ==
    \/ ScanOnce
    \/ Sleep
    \/ \E d \in Dirs : CreateLck(d, "a")
    \/ \E d \in Dirs : DeleteLck(d, "a")
    \/ \E d \in Dirs : Mkdir(d)
    \/ \E d \in Dirs : Rmdir(d)
    \/ \E W \in {{"d1", "d2"}, {"d2"}} : SetWatchDirs(W)
    \/ Interrupt

DirSpec == DirInit /\ [][DirNext]_vars

\* The monitor over the roots d1 and d2, both on the host, with jobs named a
\* in d1 only; the root d1 may be taken out of the configuration and put
\* back.  The run has four scan cycles.
RestartInit ==
    /\ cfg \in [ENABLE_PROCESS_DETECTION : {TRUE},
                LCK_GRACE_PERIOD : {GracePeriod},
                JOB_END_CONFIRM_PERIOD : {0},
                FEISHU_ORPHAN_URL : {FALSE},
                WECOM_WEBHOOK_URL : {TRUE},
                PROGRESS_NOTIFY_INTERVAL : {0},
                CSV_UPDATE_INTERVAL : {0},
                NOTIFY_DEDUPE_TTL : {DedupeTTL},
                WATCH_DIRS : {{"d1", "d2"}}]
    /\ now = MaxTime - 3
    /\ pc = "scan"
    /\ disk = {"d1", "d2"}
    /\ lck \in {f \in [Dirs -> [Names -> {NoFile, 0}]] :
                   \A d \in Dirs, n \in Names :
                       (d # "d1" \/ n # "a") => f[d][n] = NoFile}
    /\ heap = <<>>
    /\ hist = <<>>
    /\ running_jobs = EmptyDict
    /\ finishing_jobs = EmptyDict
    /\ ignored_lck = EmptyDict
    /\ completed_jobs = <<>>
    /\ tracked_jobs = EmptyDict
    /\ last_progress_notify = EmptyDict
    /\ last_csv_update = EmptyDict
    /\ ret = NoScan
    /\ ocalls = [d \in Dirs |-> [n \in Names |-> 0]]
    /\ DedupeInitState
    /\ deduper = None
    /\ wc = NoSends({})

RestartNext ==
    \/ ScanOnce
    \/ Sleep
    \/ CreateLck("d1", "a")
    \/ DeleteLck("d1", "a")
    \/ \E W \in {{"d1", "d2"}, {"d2"}} : SetWatchDirs(W)

RestartSpec == RestartInit /\ [][RestartNext]_vars

\* The deduper alone: calls of should_send at arbitrary times.
DedupeInit ==
    /\ cfg \in [ENABLE_PROCESS_DETECTION : {TRUE},
                LCK_GRACE_PERIOD : {GracePeriod},
                JOB_END_CONFIRM_PERIOD : {0},
                FEISHU_ORPHAN_URL : {FALSE},
                WECOM_WEBHOOK_URL : {FALSE},
                PROGRESS_NOTIFY_INTERVAL : {0},
                CSV_UPDATE_INTERVAL : {0},
                NOTIFY_DEDUPE_TTL : {0, DedupeTTL},
                WATCH_DIRS : {{"d1"}}]
    /\ now = 0
    /\ pc = "scan"
    /\ disk = {"d1"}
    /\ lck = [d \in Dirs |-> [n \in Names |-> NoFile]]
    /\ heap = <<>>
    /\ hist = <<>>
    /\ running_jobs = EmptyDict
    /\ finishing_jobs = EmptyDict
    /\ ignored_lck = EmptyDict
    /\ completed_jobs = <<>>
    /\ tracked_jobs = EmptyDict
    /\ last_progress_notify = EmptyDict
    /\ last_csv_update = EmptyDict
    /\ ret = NoScan
    /\ ocalls = [d \in Dirs |-> [n \in Names |-> 0]]
    /\ DedupeInitState
    /\ deduper = cfg.NOTIFY_DEDUPE_TTL
    /\ wc = NoSends({})

DedupeNext ==
    \/ \E k \in Keys : CallShouldSend(k)
    \/ DedupeTick

DedupeSpec == DedupeInit /\ [][DedupeNext]_vars

\* ---------------------------------------------------- the WeCom sender
\* The job the notifications are about.
TheJob == [name |-> "a", work_dir |-> "d1", start_time |-> 0]

\* send_job_start: the idempotency key of a start notification.
StartKey(job) ==
    "wecom:job:" \o job.name \o "@" \o job.work_dir \o "#"
        \o ToString(job.start_time) \o ":start"

\* send_job_progress: the idempotency key of a progress notification.
ProgressKey(job, step, increment) ==
    "wecom:job:" \o job.name \o "@" \o job.work_dir \o "#"
        \o ToString(job.start_time) \o ":progress:"
        \o ToString(step) \o ":" \o ToString(increment)

IdempotencyKey(job, i) ==
    IF i.kind = "start" THEN StartKey(job)
    ELSE ProgressKey(job, i.step, i.increment)

\* The dedupe key without the webhook URL.
DedupeKeyUnscoped(idempotency_key, webhook_url) == idempotency_key

\* WecomWebhookClient.send: the key handed to the deduper.
DedupeKey(idempotency_key, webhook_url) ==
    IF idempotency_key # "" /\ webhook_url # ""
    THEN idempotency_key \o "@" \o webhook_url
    ELSE idempotency_key

\* A get_notification_deduper that makes a new instance when the TTL it is
\* given differs from the instance's.
GetNotificationDeduperRecreates(d, s, ttl_seconds) ==
    IF d = None \/ d # ttl_seconds
    THEN [ttl_seconds |-> ttl_seconds, seen |-> EmptyDict]
    ELSE [ttl_seconds |-> d, seen |-> s]

\* get_notification_deduper: the instance is made by the first call only.
\* d is the module's _deduper (None, or the instance's ttl_seconds), s the
\* instance's _seen.
GetNotificationDeduper(d, s, ttl_seconds) ==
    IF d = None
    THEN [ttl_seconds |-> ttl_seconds, seen |-> EmptyDict]
    ELSE [ttl_seconds |-> d, seen |-> s]

\* WecomWebhookClient._send_markdown: nothing is posted without a target
\* URL; the result is true only for HTTP 200 with errcode 0.
SendMarkdown(webhook_url, outcome) ==
    LET target_url == IF webhook_url # "" THEN webhook_url
                      ELSE IF cfg.WECOM_WEBHOOK_URL THEN DefaultWecomUrl ELSE ""
    IN  [posted |-> target_url # "", ok |-> target_url # "" /\ outcome = "ok"]

\* A send that takes the key out of the deduper again when the delivery
\* failed.
SendForgetsFailedDelivery(d, s, idempotency_key, webhook_url, t, outcome) ==
    LET inst == GetNotificationDeduper(d, s, cfg.NOTIFY_DEDUPE_TTL)
        dedupe_key == DedupeKey(idempotency_key, webhook_url)
        r == ShouldSend(inst.seen, dedupe_key, t, inst.ttl_seconds)
        m == SendMarkdown(webhook_url, outcome)
    IN  [ttl_seconds |-> inst.ttl_seconds,
         seen |-> IF r.result /\ ~m.ok /\ dedupe_key \in DOMAIN r.seen
                  THEN Pop(r.seen, dedupe_key) ELSE r.seen,
         key |-> dedupe_key, passed |-> r.result,
         posted |-> r.result /\ m.posted, ok |-> r.result /\ m.ok]

\* WecomWebhookClient.send: the deduper is asked (and records the key)
\* before the message is built and posted.
Send(d, s, idempotency_key, webhook_url, t, outcome) ==
    LET inst == GetNotificationDeduper(d, s, cfg.NOTIFY_DEDUPE_TTL)
        dedupe_key == DedupeKey(idempotency_key, webhook_url)
        r == ShouldSend(inst.seen, dedupe_key, t, inst.ttl_seconds)
        m == SendMarkdown(webhook_url, outcome)
    IN  [ttl_seconds |-> inst.ttl_seconds, seen |-> r.seen,
         key |-> dedupe_key, passed |-> r.result,
         posted |-> r.result /\ m.posted, ok |-> r.result /\ m.ok]

\* One call of send_job_start or send_job_progress at the current time.
WecomSend(i, outcome) ==
    /\ i \in wc.pair
    /\ \E r \in {Send(deduper, seen, IdempotencyKey(TheJob, i), i.url, now, outcome)} :
          /\ deduper' = r.ttl_seconds
          /\ seen' = r.seen
          /\ wc' = [wc EXCEPT
                      !.last = [input |-> i, time |-> now, key |-> r.key,
                                ttl |-> cfg.NOTIFY_DEDUPE_TTL,
                                passed |-> r.passed, posted |-> r.posted,
                                ok |-> r.ok, prevPass |-> wc.passAt[i],
                                prevFailed |-> wc.failed[i]],
                      !.passAt[i] = IF r.passed THEN now ELSE @,
                      !.failed[i] = IF r.passed THEN ~r.ok ELSE @,
                      !.firstTTL = IF @ = None THEN cfg.NOTIFY_DEDUPE_TTL ELSE @]
    /\ UNCHANGED <<now, dd, detectorVars, monitorVars>>

\* Settings.reload: NOTIFY_DEDUPE_TTL is edited while the monitor runs.
ReloadSettings(ttl) ==
    /\ ttl # cfg.NOTIFY_DEDUPE_TTL
    /\ cfg' = [cfg EXCEPT !.NOTIFY_DEDUPE_TTL = ttl]
    /\ UNCHANGED <<now, pc, lck, disk, heap, running_jobs, finishing_jobs,
                   ignored_lck, completed_jobs, tracked_jobs, ret, hist, ocalls,
                   seen, dd, monitorVars, senderVars>>

\* The sender alone: two notifications are sent, again and again, at
\* arbitrary times, deliveries fail, and the TTL setting is edited.  The run
\* is one poll interval longer than the TTL.
WecomInit ==
    /\ cfg \in [ENABLE_PROCESS_DETECTION : {TRUE},
                LCK_GRACE_PERIOD : {GracePeriod},
                JOB_END_CONFIRM_PERIOD : {0},
                FEISHU_ORPHAN_URL : {FALSE},
                WECOM_WEBHOOK_URL : {TRUE},
                PROGRESS_NOTIFY_INTERVAL : {0},
                CSV_UPDATE_INTERVAL : {0},
                NOTIFY_DEDUPE_TTL : {0, DedupeTTL},
                WATCH_DIRS : {{"d1"}}]
    /\ now = MaxTime - DedupeTTL - 1
    /\ pc = "scan"
    /\ disk = {"d1"}
    /\ lck = [d \in Dirs |-> [n \in Names |-> NoFile]]
    /\ heap = <<>>
    /\ hist = <<>>
    /\ running_jobs = EmptyDict
    /\ finishing_jobs = EmptyDict
    /\ ignored_lck = EmptyDict
    /\ completed_jobs = <<>>
    /\ tracked_jobs = EmptyDict
    /\ last_progress_notify = EmptyDict
    /\ last_csv_update = EmptyDict
    /\ ret = NoScan
    /\ ocalls = [d \in Dirs |-> [n \in Names |-> 0]]
    /\ DedupeInitState
    /\ deduper = None
    /\ \E pair \in SendPairs : wc = NoSends(pair)

WecomNext ==
    \/ \E i \in SendInputs, outcome \in DeliveryOutcomes : WecomSend(i, outcome)
    \/ \E ttl \in {0, DedupeTTL} : ReloadSettings(ttl)
    \/ DedupeTick

WecomSpec == WecomInit /\ [][WecomNext]_vars

\* ================================================================= claims
\* A step of the polling loop that runs one scan cycle.
IsScan == pc = "scan" /\ pc' = "sleep"

\* The scan cycle recorded in r returned object i to its caller with the
\* decision kind.
Emitted(r, i, kind) ==
    /\ ~r.exc
    /\ \E k \in 1..Len(r.jobs) : r.jobs[k] = [id |-> i, kind |-> kind]

\* The names active in d before a scan, and the names ignored there.
PrevJobs(d) ==
    IF d \in DOMAIN running_jobs
    THEN (DOMAIN running_jobs[d]) \cup (DOMAIN finishing_jobs[d]) ELSE {}

PrevIgnored(d) == IF d \in DOMAIN ignored_lck THEN ignored_lck[d] ELSE {}

\* The object under which name n is active in d before a scan.
PrevJob(d, n) ==
    IF n \in DOMAIN running_jobs[d] THEN running_jobs[d][n] ELSE finishing_jobs[d][n]

\* The JobInfo objects the program still holds.
Live ==
    {i \in DOMAIN heap :
        \/ \E d \in DOMAIN running_jobs :
              \/ \E n \in DOMAIN running_jobs[d] : running_jobs[d][n] = i
              \/ \E n \in DOMAIN finishing_jobs[d] : finishing_jobs[d][n] = i
        \/ \E k \in 1..Len(completed_jobs) : completed_jobs[k] = i
        \/ \E key \in DOMAIN tracked_jobs : tracked_jobs[key] = i}

\* C1: a job whose marker was seen, and then found missing with the status
\* file showing the success phrase, has had its start event exactly once and
\* its completion event exactly once, as Success, with endTime set and
\* isOrphan false; no job ever has two start or two completion events.
C1_ExactlyOnceEndToEnd ==
    \A i \in DOMAIN heap :
        /\ hist[i].startEv <= 1
        /\ hist[i].completeEv <= 1
        /\ (hist[i].endSeen /\ hist[i].staEnd = "success") =>
              /\ hist[i].startEv = 1
              /\ hist[i].completeEv = 1
              /\ heap[i].status = "SUCCESS"
              /\ heap[i].end_time # None
              /\ ~heap[i].is_orphan

\* C2: with a confirmation period T > 0, once a scan cycle has run T or more
\* after a job's marker was first found missing, the job is in a terminal
\* state (the finishing window is bounded).
C2_FinishingWindowBounded ==
    cfg.JOB_END_CONFIRM_PERIOD > 0 =>
        \A i \in DOMAIN heap :
            (/\ hist[i].endSeen
             /\ ret.time # None
             /\ ret.time - hist[i].endAt >= cfg.JOB_END_CONFIRM_PERIOD)
            => heap[i].status \in Terminal

\* C3: with T > 0, a job whose marker was found missing at endAt and whose
\* status file never shows a terminal phrase is Aborted after the first
\* cycle with now - endAt >= T, with endTime that cycle's time, and is not
\* terminal after any earlier cycle.
C3_AbortedAtWindowExpiry ==
    cfg.JOB_END_CONFIRM_PERIOD > 0 =>
        \A i \in DOMAIN heap :
            (hist[i].endSeen /\ ~hist[i].termRead /\ ret.time # None) =>
                IF ret.time - hist[i].endAt >= cfg.JOB_END_CONFIRM_PERIOD
                THEN /\ heap[i].status = "ABORTED"
                     /\ heap[i].end_time - hist[i].endAt >= cfg.JOB_END_CONFIRM_PERIOD
                     /\ heap[i].end_time - 1 - hist[i].endAt < cfg.JOB_END_CONFIRM_PERIOD
                ELSE heap[i].status \notin Terminal

\* C4: with TTL > 0 and a non-empty key, should_send returns true exactly
\* when the key has had no true result yet or its last true result is at
\* least TTL old: true the first time, false within the window, true again
\* once the TTL has passed.
C4_OncePerWindow ==
    (/\ cfg.NOTIFY_DEDUPE_TTL > 0
     /\ dd.last.time # None
     /\ dd.last.key # "")
    => (dd.last.result <=>
            \/ dd.last.prev = None
            \/ dd.last.time - dd.last.prev >= cfg.NOTIFY_DEDUPE_TTL)

\* A call for a non-empty key returned true again after an earlier true
\* result, the TTL having passed.
C4_Witness ==
    /\ cfg.NOTIFY_DEDUPE_TTL > 0
    /\ dd.last.time # None
    /\ dd.last.key # ""
    /\ dd.last.result
    /\ dd.last.prev # None

\* C5: in a scan with process detection enabled and the probe false, a job
\* that was Running before the scan and whose marker is present is
\* reclassified iff the marker's age is at least the grace period: then it
\* is Aborted with isOrphan, out of the running set and in the ignored set;
\* else it stays Running and is returned as continuing.
C5_OrphanReclassification ==
    [][IsScan =>
        \A d \in DOMAIN running_jobs : \A n \in DOMAIN running_jobs[d] :
            (/\ lck[d][n] # NoFile
             /\ cfg.ENABLE_PROCESS_DETECTION
             /\ ~ret'.abq[d])
            => LET i == running_jobs[d][n]
               IN  IF now - lck[d][n] >= cfg.LCK_GRACE_PERIOD
                   THEN /\ heap'[i].status = "ABORTED"
                        /\ heap'[i].is_orphan
                        /\ n \notin DOMAIN running_jobs'[d]
                        /\ n \in ignored_lck'[d]
                   ELSE /\ heap'[i].status = "RUNNING"
                        /\ n \in DOMAIN running_jobs'[d]
                        /\ running_jobs'[d][n] = i
                        /\ Emitted(ret', i, "continuing")]_vars

\* C6: between the scan that first sees a marker and the scan that finds it
\* missing, _handle_orphan_job runs at most once for it.
C6_OneOrphanRunPerMarker ==
    \A d \in Dirs, n \in Names : ocalls[d][n] <= 1

\* C7: a marker seen for the first time (in effective - previous) goes to
\* the ignored set, with no JobInfo created and nothing returned for it, iff
\* process detection is enabled, the probe is false and its age is at least
\* the grace period; otherwise a JobInfo in state Running is created, put in
\* the running set and returned as new.
C7_FirstSightClassification ==
    [][IsScan =>
        \A d \in Dirs : \A n \in Names :
            (/\ lck[d][n] # NoFile
             /\ n \notin PrevIgnored(d)
             /\ n \notin PrevJobs(d))
            => LET made == {i \in (DOMAIN heap') \ (DOMAIN heap) :
                              heap'[i].name = n /\ heap'[i].work_dir = d}
               IN  IF /\ cfg.ENABLE_PROCESS_DETECTION
                      /\ ~ret'.abq[d]
                      /\ now - lck[d][n] >= cfg.LCK_GRACE_PERIOD
                   THEN /\ n \in ignored_lck'[d]
                        /\ made = {}
                        /\ n \notin DOMAIN running_jobs'[d]
                   ELSE /\ n \notin ignored_lck'[d]
                        /\ \E i \in made :
                              /\ heap'[i].status = "RUNNING"
                              /\ n \in DOMAIN running_jobs'[d]
                              /\ running_jobs'[d][n] = i
                              /\ Emitted(ret', i, "new")]_vars

\* C8: with a confirmation period <= 0, a job whose marker is found missing
\* by a scan is resolved by that scan (Success, Failed, or Aborted for any
\* other status) and returned by it as ended, and no scan leaves a job in
\* the finishing map.
C8_ImmediateResolution ==
    [][(IsScan /\ cfg.JOB_END_CONFIRM_PERIOD <= 0) =>
        /\ \A d \in DOMAIN finishing_jobs' : DOMAIN finishing_jobs'[d] = {}
        /\ \A d \in DOMAIN running_jobs : \A n \in PrevJobs(d) :
            lck[d][n] = NoFile =>
                LET i == PrevJob(d, n)
                IN  /\ heap'[i].status =
                          (IF hist'[i].staEnd = "success" THEN "SUCCESS"
                           ELSE IF hist'[i].staEnd = "failed" THEN "FAILED"
                           ELSE "ABORTED")
                    /\ heap'[i].end_time = now
                    /\ Emitted(ret', i, "ended")]_vars

\* C9: a scan that finds the marker of a Running job present and the process
\* present (or process detection disabled) leaves the job Running in the
\* running set and returns it as continuing.
C9_PersistingJobContinues ==
    [][IsScan =>
        \A d \in DOMAIN running_jobs : \A n \in DOMAIN running_jobs[d] :
            (lck[d][n] # NoFile /\ ret'.abq[d])
            => LET i == running_jobs[d][n]
               IN  /\ n \in DOMAIN running_jobs'[d]
                   /\ running_jobs'[d][n] = i
                   /\ heap'[i].status = "RUNNING"
                   /\ Emitted(ret', i, "continuing")]_vars

\* C10: every JobInfo object the program holds has endTime set iff its
\* state is Success, Failed or Aborted.
C10_EndTimeIffTerminal ==
    \A i \in Live : (heap[i].end_time # None) <=> (heap[i].status \in Terminal)

\* C11: no scan cycle changes the state or the endTime of a JobInfo that is
\* in Success, Failed or Aborted, and none takes a JobInfo from Finishing
\* back to Running.
C11_MonotoneLifecycle ==
    [][\A i \in DOMAIN heap :
          /\ heap[i].status \in Terminal =>
                /\ heap'[i].status = heap[i].status
                /\ heap'[i].end_time = heap[i].end_time
          /\ heap[i].status = "FINISHING" => heap'[i].status # "RUNNING"]_vars

\* C18: with TTL <= 0 every call of should_send with a non-empty key
\* returns true.
C18_DisabledAlwaysSends ==
    (/\ cfg.NOTIFY_DEDUPE_TTL <= 0
     /\ dd.last.time # None
     /\ dd.last.key # "")
    => dd.last.result

\* With TTL <= 0 a call returned true for a key whose last true result was
\* at the same instant.
C18_Witness ==
    /\ cfg.NOTIFY_DEDUPE_TTL <= 0
    /\ dd.last.time # None
    /\ dd.last.key # ""
    /\ dd.last.prev = dd.last.time
    /\ dd.last.result

\* C19: a call of should_send with an empty key returns true and leaves
\* the key-to-timestamp mapping as it was.
C19_EmptyKeyBypass ==
    [][(dd'.last # dd.last /\ dd'.last.key = "")
       => (dd'.last.result /\ seen' = seen)]_vars

\* A call with an empty key was made while the mapping held a key.
C19_Witness ==
    /\ dd.last.time # None
    /\ dd.last.key = ""
    /\ dd.last.result
    /\ DOMAIN seen # {}

\* C12: in the scan of a directory the names handled as new and the names
\* handled as ended are disjoint, and no name that is in the directory's
\* ignored set when the new set is computed is in the new set.
C12_NewEndedIgnoredDisjoint ==
    \A d \in Dirs :
        /\ ret.newSet[d] \cap ret.endedSet[d] = {}
        /\ ret.newSet[d] \cap ret.ignAtNew[d] = {}

\* A scan found a new name in a directory whose ignored set held another
\* name.
C12_Witness ==
    /\ ret.time # None
    /\ ret.newSet["d1"] # {}
    /\ ret.ignAtNew["d1"] # {}

\* C13: per-directory failure isolation: when the scan of one monitored
\* directory raises in a cycle, every other monitored directory is still
\* scanned in that cycle, so every cycle scans all monitored directories.
C13_PerDirectoryIsolation ==
    ret.time # None => \A d \in ret.monitored : d \in ret.scanned

\* C14: the polling loop never stops because of an error in a scan cycle:
\* after a scan, failed or not, the loop sleeps, and after the sleep it scans
\* again; only the interrupt ends the loop.
C14_LoopSurvivesErrors ==
    [][/\ (pc = "scan" /\ pc' # "scan") => (pc' = "sleep" \/ Interrupt)
       /\ (pc = "sleep" /\ pc' # "sleep") => (pc' = "scan" \/ Interrupt)]_vars

\* A scan cycle raised and the loop is at its sleep, with time left for the
\* next cycle.
C14_Witness ==
    /\ pc = "sleep"
    /\ ret.time # None
    /\ ret.exc
    /\ now < MaxTime

\* C15: when the process-presence probe fails during a scan the detector
\* goes on as if the process were present: the scan completes without an
\* exception, every monitored directory is scanned, no job is orphaned and
\* no name is added to an ignored set.
C15_ProbeFailureAssumesPresent ==
    [][(IsScan /\ ret'.err = "ProbeError") =>
          /\ ~ret'.exc
          /\ \A d \in ret'.monitored : d \in ret'.scanned
          /\ ocalls' = ocalls
          /\ \A d \in DOMAIN ignored_lck' :
                d \in DOMAIN ignored_lck => ignored_lck'[d] \subseteq ignored_lck[d]]_vars

\* C16: a failing notification send does not affect detector state and does
\* not stop the cycle: after a scan in which the orphan warning failed, the
\* scan has returned to its caller, and every job orphaned in it is in the
\* completed collection, out of the running set, has its name in the ignored
\* set and was returned to the caller as it is when the send succeeds.
C16_CollaboratorFailureHarmless ==
    [][(IsScan /\ ret'.err = "TypeError") =>
          /\ ~ret'.exc
          /\ \A i \in DOMAIN heap :
                (~heap[i].is_orphan /\ heap'[i].is_orphan) =>
                    /\ \E k \in 1..Len(completed_jobs') : completed_jobs'[k] = i
                    /\ heap'[i].name \in ignored_lck'[heap'[i].work_dir]
                    /\ heap'[i].name \notin DOMAIN running_jobs'[heap'[i].work_dir]
                    /\ Emitted(ret', i, "orphaned")]_vars

C20_ProbeOncePerCycle ==
    ret.probes <= 1

\* C21: with process detection disabled no orphan path triggers: a scan
\* leaves every ignored set empty and no job with isOrphan, and a job leaves
\* the running set only in a scan whose listing lacks its marker, or when
\* its directory leaves the monitored set.
C21_NoOrphanPathWhenDisabled ==
    [][(IsScan /\ ~cfg.ENABLE_PROCESS_DETECTION) =>
          /\ \A d \in DOMAIN ignored_lck' : ignored_lck'[d] = {}
          /\ \A i \in DOMAIN heap' : ~heap'[i].is_orphan
          /\ \A d \in DOMAIN running_jobs : \A n \in DOMAIN running_jobs[d] :
                \/ d \notin DOMAIN running_jobs'
                \/ lck[d][n] = NoFile
                \/ /\ n \in DOMAIN running_jobs'[d]
                   /\ running_jobs'[d][n] = running_jobs[d][n]]_vars

\* With detection disabled a scan has kept a job Running whose marker is as
\* old as the grace period.
C21_Witness ==
    /\ ~cfg.ENABLE_PROCESS_DETECTION
    /\ ret.time # None
    /\ \E n \in DOMAIN running_jobs["d1"] :
          /\ lck["d1"][n] # NoFile
          /\ now - lck["d1"][n] >= cfg.LCK_GRACE_PERIOD
          /\ Emitted(ret, running_jobs["d1"][n], "continuing")

C23_EndDetectedTimeFixed ==
    cfg.JOB_END_CONFIRM_PERIOD > 0 =>
        \A i \in DOMAIN heap :
            (hist[i].endSeen /\ heap[i].status \notin Terminal) =>
                heap[i].end_detected_time = hist[i].endAt

\* C24: with a confirmation period, in the cycle in which the status
\* snapshot of a job whose marker is gone first reports success or failed,
\* the job is resolved to Success or Failed, is out of the finishing map, and
\* its endTime is the time of that cycle.
C24_ResolvedWhenSnapshotTerminal ==
    [][(IsScan /\ cfg.JOB_END_CONFIRM_PERIOD > 0) =>
          \A i \in DOMAIN heap :
              (~hist[i].termRead /\ hist'[i].termRead) =>
                  /\ heap'[i].status \in {"SUCCESS", "FAILED"}
                  /\ heap'[i].end_time = now
                  /\ \A d \in DOMAIN finishing_jobs' :
                        \A n \in DOMAIN finishing_jobs'[d] :
                            finishing_jobs'[d][n] # i]_vars

\* C25: with a confirmation period T, in a cycle that runs T or more after
\* the marker of a still unresolved job was found missing, the job is
\* resolved to Aborted with that cycle's time, whatever the status snapshot
\* holds in that cycle.
C25_AbortedAtExpiryRegardless ==
    [][(IsScan /\ cfg.JOB_END_CONFIRM_PERIOD > 0) =>
          \A i \in DOMAIN heap :
              (/\ hist[i].endSeen
               /\ heap[i].status \notin Terminal
               /\ now - hist[i].endAt >= cfg.JOB_END_CONFIRM_PERIOD)
              => /\ heap'[i].status = "ABORTED"
                 /\ heap'[i].end_time = now]_vars

\* C26: a name leaves a directory's ignored set only in a scan whose
\* listing lacks its marker; for a name that is in the ignored set no
\* JobRecord is created and no transition is emitted, whatever the probe
\* says; after the scan of a directory its ignored set is a subset of the
\* markers listed.
C26_IgnoredSetLifetime ==
    [][IsScan =>
        /\ \A d \in (DOMAIN ignored_lck) \cap (DOMAIN ignored_lck') :
              \A n \in ignored_lck[d] :
                  /\ n \notin ignored_lck'[d] => lck[d][n] = NoFile
                  /\ \A i \in (DOMAIN heap') \ (DOMAIN heap) :
                        ~(heap'[i].name = n /\ heap'[i].work_dir = d)
                  /\ \A k \in 1..Len(ret'.jobs) :
                        ~(/\ heap'[ret'.jobs[k].id].name = n
                          /\ heap'[ret'.jobs[k].id].work_dir = d)
        /\ \A d \in ret'.scanned :
              ignored_lck'[d] \subseteq {n \in Names : lck[d][n] # NoFile}]_vars

\* A scan with the process present found an ignored name whose marker is
\* still there, and left it ignored.
C26_Witness ==
    /\ ret.time # None
    /\ cfg.ENABLE_PROCESS_DETECTION
    /\ ret.abq["d1"]
    /\ ~ret.exc
    /\ \E n \in ret.ignAtNew["d1"] : n \in ignored_lck["d1"] /\ lck["d1"][n] # NoFile

\* C27: within one scan pass of a directory no job is both finalized
\* (handled as ended or finishing) and orphaned: a job orphaned in the pass
\* was not among the ended names and not in Finishing, and every ended or
\* finishing entry of the directory comes before every orphaned one.
C27_FinalizedXorOrphaned ==
    [][IsScan =>
        /\ \A i \in DOMAIN heap :
              (~heap[i].is_orphan /\ heap'[i].is_orphan) =>
                  /\ heap[i].name \notin ret'.endedSet[heap[i].work_dir]
                  /\ heap[i].name \notin DOMAIN finishing_jobs[heap[i].work_dir]
                  /\ \A k \in 1..Len(ret'.jobs) :
                        ret'.jobs[k].id = i => ret'.jobs[k].kind = "orphaned"
        /\ \A k, m \in 1..Len(ret'.jobs) :
              (/\ ret'.jobs[k].kind = "orphaned"
               /\ ret'.jobs[m].kind \in {"ended", "finishing"}
               /\ heap'[ret'.jobs[k].id].work_dir = heap'[ret'.jobs[m].id].work_dir)
              => m < k]_vars

\* One scan of d1 resolved an ended job and then orphaned another.
C27_Witness ==
    /\ ret.time # None
    /\ \E k, m \in 1..Len(ret.jobs) :
          /\ ret.jobs[k].kind = "orphaned"
          /\ ret.jobs[m].kind = "ended"
          /\ heap[ret.jobs[k].id].is_orphan
          /\ heap[ret.jobs[m].id].status \in Terminal

\* C28: in the list one scan cycle builds for its caller each JobRecord
\* appears at most once, so it carries one decision (new, continuing,
\* finishing, ended or orphaned); a job listed as ended is not also listed
\* as finishing.
C28_OneDecisionPerJob ==
    \A k, m \in 1..Len(ret.jobs) :
        ret.jobs[k].id = ret.jobs[m].id => k = m

\* A scan returned two jobs with different decisions.
C28_Witness ==
    /\ ret.time # None
    /\ ~ret.exc
    /\ \E k, m \in 1..Len(ret.jobs) :
          /\ ret.jobs[k].kind = "ended"
          /\ ret.jobs[m].kind = "continuing"

\* C29: in the scan of a directory every name in previous /\ effective
\* (active in Running or Finishing before the scan, marker listed, not
\* ignored) that is not orphaned in the cycle is emitted as continuing, and
\* the scan completes without an exception.
C29_StillActiveRefreshed ==
    [][IsScan =>
        \A d \in ret'.scanned :
            \A n \in PrevJobs(d) \ PrevIgnored(d) :
                (/\ lck[d][n] # NoFile
                 /\ ~(/\ cfg.ENABLE_PROCESS_DETECTION
                      /\ ~ret'.abq[d]
                      /\ now - lck[d][n] >= cfg.LCK_GRACE_PERIOD))
                => /\ ~ret'.exc
                   /\ Emitted(ret', PrevJob(d, n), "continuing")]_vars

\* C30: when a directory leaves the monitored set, the refresh drops its
\* running, finishing and ignored state, nothing is emitted for the jobs
\* that were Running or Finishing there and they are left as they were; a
\* directory that enters the monitored set, again or for the first time,
\* starts from empty state, so every marker present in it is handled as a
\* first-seen marker.
C30_DirectoryLeavesAndReturns ==
    [][IsScan =>
        LET roots == {d \in cfg.WATCH_DIRS : d \in disk}
            monitored == roots \cup {d \in disk : Parent(d) \in roots}
        IN  /\ \A d \in (DOMAIN running_jobs) \ monitored :
                  /\ d \notin DOMAIN running_jobs'
                  /\ d \notin DOMAIN finishing_jobs'
                  /\ d \notin DOMAIN ignored_lck'
                  /\ \A n \in PrevJobs(d) :
                        /\ heap'[PrevJob(d, n)] = heap[PrevJob(d, n)]
                        /\ \A k \in 1..Len(ret'.jobs) :
                              ret'.jobs[k].id # PrevJob(d, n)
            /\ \A d \in monitored \ DOMAIN running_jobs :
                  (d \in ret'.scanned /\ ~ret'.exc) =>
                      /\ ret'.newSet[d] = {n \in Names : lck[d][n] # NoFile}
                      /\ \A n \in DOMAIN running_jobs'[d] :
                            running_jobs'[d][n] \notin DOMAIN heap]_vars

\* The root d1 has left the monitored set with job a Running and has come
\* back: the old JobInfo is still Running and held by no directory, and the
\* marker has been taken as new.
C30_Witness ==
    /\ ret.time # None
    /\ "d1" \in ret.added
    /\ "a" \in ret.newSet["d1"]
    /\ \E i \in DOMAIN heap :
          /\ heap[i].name = "a"
          /\ heap[i].work_dir = "d1"
          /\ heap[i].status = "RUNNING"
          /\ hist[i].startEv = 1
          /\ \A n \in DOMAIN running_jobs["d1"] : running_jobs["d1"][n] # i

\* C31: a JobRecord in a terminal state is in neither the running nor the
\* finishing map of any directory and occurs exactly once in completed_jobs,
\* and completed_jobs only grows.
C31_TerminalOwnedByCompletedList ==
    [][/\ \A i \in DOMAIN heap' :
            heap'[i].status \in Terminal =>
                /\ \A d \in DOMAIN running_jobs' :
                      /\ \A n \in DOMAIN running_jobs'[d] : running_jobs'[d][n] # i
                      /\ \A n \in DOMAIN finishing_jobs'[d] : finishing_jobs'[d][n] # i
                /\ Cardinality({k \in 1..Len(completed_jobs') : completed_jobs'[k] = i}) = 1
       /\ Len(completed_jobs') >= Len(completed_jobs)
       /\ \A k \in 1..Len(completed_jobs) : completed_jobs'[k] = completed_jobs[k]]_vars

\* C38: a should_send call that returns false leaves the timestamp of its
\* key as the last true-returning call set it, and a call made once the TTL
\* has passed since the key's last true result returns true, whatever
\* suppressed calls came in between.
C38_SuppressedCallKeepsTimestamp ==
    [][(dd'.last # dd.last /\ dd'.last.key # "") =>
        LET key == dd'.last.key
        IN  /\ ~dd'.last.result =>
                  /\ key \in DOMAIN seen
                  /\ key \in DOMAIN seen'
                  /\ seen'[key] = seen[key]
                  /\ seen'[key] = dd.lastTrue[key]
            /\ (dd.lastTrue[key] # None
                /\ now - dd.lastTrue[key] >= cfg.NOTIFY_DEDUPE_TTL)
               => dd'.last.result]_vars

\* A call returned true exactly one TTL after the key's last true result,
\* with a suppressed call for the key in between.
C38_Witness ==
    /\ cfg.NOTIFY_DEDUPE_TTL > 0
    /\ dd.last.time # None
    /\ dd.last.key # ""
    /\ dd.last.result
    /\ dd.last.prev # None
    /\ dd.last.time - dd.last.prev = cfg.NOTIFY_DEDUPE_TTL
    /\ dd.last.prevFalse # None
    /\ dd.last.prevFalse > dd.last.prev
    /\ dd.last.prevFalse < dd.last.time

\* C34: for every monitored directory the names of the running map, of the
\* finishing map and of the ignored set are pairwise disjoint when a scan
\* cycle has ended.
C34_NameSetsDisjoint ==
    pc = "sleep" =>
        \A d \in DOMAIN running_jobs :
            /\ DOMAIN running_jobs[d] \cap DOMAIN finishing_jobs[d] = {}
            /\ DOMAIN running_jobs[d] \cap ignored_lck[d] = {}
            /\ DOMAIN finishing_jobs[d] \cap ignored_lck[d] = {}

\* A scan cycle ended with a running job and an ignored name in one directory.
C34_Witness ==
    /\ pc = "sleep"
    /\ ret.time # None
    /\ \E d \in DOMAIN running_jobs :
          /\ DOMAIN running_jobs[d] # {}
          /\ ignored_lck[d] # {}

\* C35: a Running job whose marker is at least the grace period old is
\* orphaned (Aborted, isOrphan, name ignored) by the first scan in which the
\* probe is false, however recently the process was still present; and a
\* later scan that finds the same marker and the process present leaves the
\* orphaned job Aborted and its name in the ignored set.
C35_GraceFromMarkerCreationIrreversible ==
    [][IsScan =>
        /\ \A d \in DOMAIN running_jobs : \A n \in DOMAIN running_jobs[d] :
              (/\ lck[d][n] # NoFile
               /\ cfg.ENABLE_PROCESS_DETECTION
               /\ ~ret'.abq[d]
               /\ now - lck[d][n] >= cfg.LCK_GRACE_PERIOD)
              => LET i == running_jobs[d][n]
                 IN  /\ heap'[i].status = "ABORTED"
                     /\ heap'[i].is_orphan
                     /\ heap'[i].end_time = now
                     /\ n \in ignored_lck'[d]
        /\ \A i \in DOMAIN heap :
              LET d == heap[i].work_dir
                  n == heap[i].name
              IN  (/\ heap[i].is_orphan
                   /\ heap[i].status = "ABORTED"
                   /\ d \in DOMAIN ignored_lck
                   /\ d \in ret'.scanned
                   /\ lck[d][n] # NoFile
                   /\ lck[d][n] < heap[i].end_time
                   /\ ret'.abq[d])
                  => /\ heap'[i].status = "ABORTED"
                     /\ heap'[i].is_orphan
                     /\ n \in ignored_lck'[d]]_vars

\* A step that is one call of WecomWebhookClient.send.
IsWecomSend == wc'.last # wc.last

\* C32: with deduplication on, a send is suppressed iff a send of the same
\* event kind, job, start timestamp, step and increment with the same
\* webhook_url passed the deduper less than TTL ago; what was sent with
\* another step, increment or webhook_url does not count, so such sends are
\* each delivered.
C32_ScopedKeyDeduplication ==
    [][(IsWecomSend /\ deduper' > 0) =>
        LET c == wc'.last
        IN  /\ c.passed <=> (\/ wc.passAt[c.input] = None
                             \/ now - wc.passAt[c.input] >= deduper')
            /\ c.posted <=> c.passed]_vars

\* A repeated send was suppressed although the other notification, which
\* differs from it in step, increment or webhook_url, was delivered after
\* the first send of the suppressed one.
C32_Witness ==
    /\ wc.last.time # None
    /\ ~wc.last.passed
    /\ wc.last.prevPass # None
    /\ \E o \in wc.pair \ {wc.last.input} :
          /\ o.kind = wc.last.input.kind
          /\ wc.passAt[o] # None
          /\ wc.passAt[o] >= wc.last.prevPass
          /\ ~wc.failed[o]

\* C33: once get_notification_deduper has made the instance, _deduper stays
\* that instance: every send works with the TTL given on the first call,
\* whatever TTL the call passes, and the keys recorded and not expired under
\* that TTL stay recorded.
C33_SingletonKeepsFirstTTL ==
    [][/\ deduper # None => deduper' = deduper
       /\ IsWecomSend =>
            LET c == wc'.last
                ttl0 == wc'.firstTTL
            IN  /\ deduper' = ttl0
                /\ c.passed <=> (\/ ttl0 <= 0
                                 \/ wc.passAt[c.input] = None
                                 \/ now - wc.passAt[c.input] >= ttl0)
                /\ (deduper # None /\ ttl0 > 0) =>
                      \A k \in DOMAIN seen :
                          (k # c.key /\ now - seen[k] <= ttl0)
                          => (k \in DOMAIN seen' /\ seen'[k] = seen[k])]_vars

\* After the TTL setting was edited to 0, a send was suppressed under the
\* TTL of the first call, and the key of the other notification is still
\* recorded.
C33_Witness ==
    /\ wc.last.time # None
    /\ wc.firstTTL # None
    /\ wc.last.ttl # wc.firstTTL
    /\ deduper = wc.firstTTL
    /\ ~wc.last.passed
    /\ Cardinality(DOMAIN seen) = 2

\* C39: a send that passes the deduper leaves its key recorded at the time
\* of the call whether the delivery succeeds or fails, so a retry of a
\* notification whose delivery failed, made with the same key and
\* webhook_url less than TTL later, is suppressed and posts nothing.
C39_KeyRecordedBeforeDelivery ==
    [][IsWecomSend =>
        LET c == wc'.last
        IN  /\ (c.passed /\ c.key # "") =>
                  (c.key \in DOMAIN seen' /\ seen'[c.key] = now)
            /\ (/\ deduper' > 0
                /\ wc.failed[c.input]
                /\ wc.passAt[c.input] # None
                /\ now - wc.passAt[c.input] < deduper')
               => (~c.passed /\ ~c.posted /\ ~c.ok)]_vars

\* A retry made one poll interval after a failed delivery was suppressed.
C39_Witness ==
    /\ wc.last.time # None
    /\ ~wc.last.passed
    /\ ~wc.last.posted
    /\ wc.last.prevFailed
    /\ wc.last.prevPass # None
    /\ wc.last.prevPass < wc.last.time

\* The objects created for the job named n in directory d, in heap h.
Attempts(h, d, n) == {i \in DOMAIN h : h[i].name = n /\ h[i].work_dir = d}

\* C36: after the _scan_once that hands a job's terminal event to
\* _on_job_complete, tracked_jobs, last_progress_notify and last_csv_update
\* have no entry for the job's key; and a later _scan_once that finds the
\* key in none of them, with the marker still missing and the last attempt
\* reported, leaves it in none of them.
C36_NoEntryAfterTerminalEvent ==
    [][IsScan =>
        \A d \in Dirs, n \in Names :
            LET key == JobKey([name |-> n, work_dir |-> d])
                gone == /\ key \notin DOMAIN tracked_jobs'
                        /\ key \notin DOMAIN last_progress_notify'
                        /\ key \notin DOMAIN last_csv_update'
            IN  /\ (\E i \in Attempts(heap, d, n) :
                       hist'[i].completeEv > hist[i].completeEv) => gone
                /\ (/\ key \notin DOMAIN tracked_jobs
                    /\ key \notin DOMAIN last_progress_notify
                    /\ key \notin DOMAIN last_csv_update
                    /\ lck[d][n] = NoFile
                    /\ Attempts(heap, d, n) # {}
                    /\ \A i \in Attempts(heap, d, n) :
                          (\A j \in Attempts(heap, d, n) : j <= i)
                          => hist[i].completeEv >= 1)
                   => gone]_vars

\* A scan handed the terminal event of a job to _on_job_complete while both
\* timestamp maps held an entry for its key, and took the entries out.
C36_Witness ==
    /\ ret.time # None
    /\ \E i \in DOMAIN heap :
          /\ hist[i].completeEv = 1
          /\ heap[i].end_time = ret.time
          /\ hist[i].progressAt # {}
          /\ cfg.CSV_UPDATE_INTERVAL > 0
          /\ JobKey(heap[i]) \notin DOMAIN tracked_jobs
          /\ JobKey(heap[i]) \notin DOMAIN last_progress_notify
          /\ JobKey(heap[i]) \notin DOMAIN last_csv_update

\* C40: with PROGRESS_NOTIFY_INTERVAL = P > 0 a job's first progress
\* notification is sent by the first scan cycle that returns the tracked job
\* again, not completed; a notification is sent only for a job that was
\* tracked before the cycle and is not completed, and at least P after the
\* job's previous one; none is sent for a job that is completed; with
\* P <= 0 none is sent at all.
C40_ProgressRateLimited ==
    [][IsScan =>
        \A i \in DOMAIN heap' :
            LET key == JobKey(heap'[i])
                P == cfg.PROGRESS_NOTIFY_INTERVAL
                old == IF i \in DOMAIN hist THEN hist[i].progressAt ELSE {}
                new == hist'[i].progressAt
                wasTracked == /\ key \in DOMAIN tracked_jobs
                              /\ tracked_jobs[key] = i
                returned == /\ ~ret'.exc
                            /\ \E k \in 1..Len(ret'.jobs) : ret'.jobs[k].id = i
            IN  /\ new \subseteq old \cup {now}
                /\ P <= 0 => new = {}
                /\ (P > 0 /\ returned /\ wasTracked /\ old = {}
                    /\ ~is_completed(heap'[i])) => now \in new
                /\ new # old =>
                      /\ wasTracked
                      /\ ~is_completed(heap'[i])
                      /\ \A t \in old : now - t >= P]_vars

\* An attempt of the job named n in d before object i has reached a
\* terminal state and been handed to _on_job_complete.
ReportedBefore(i) ==
    \E j \in Attempts(heap, heap[i].work_dir, heap[i].name) :
        /\ j < i
        /\ heap[j].status \in Terminal
        /\ hist[j].completeEv >= 1

\* C37: after an attempt of the job named n in d was reported as terminal,
\* a scan that handles a marker of n in d as new creates a JobRecord for
\* it, and the caller has emitted a start event for that record by the time
\* the detector lets go of it.
C37_EachAttemptGetsItsStart ==
    [][IsScan =>
        \A d \in Dirs, n \in Names :
            /\ (/\ n \in ret'.newSet[d]
                /\ n \notin ignored_lck'[d]
                /\ \E j \in Attempts(heap, d, n) :
                      heap[j].status \in Terminal /\ hist[j].completeEv >= 1)
               => \E i \in Attempts(heap', d, n) : i \notin DOMAIN heap
            /\ \A i \in Attempts(heap, d, n) :
                  (/\ ReportedBefore(i)
                   /\ d \in DOMAIN running_jobs
                   /\ n \in DOMAIN running_jobs[d]
                   /\ running_jobs[d][n] = i
                   /\ \/ d \notin DOMAIN running_jobs'
                      \/ n \notin DOMAIN running_jobs'[d])
                  => hist'[i].startEv >= 1]_vars

====
